---- MODULE Spec2Model ----
(***************************************************************************)
(* Model of django_elasticsearch_dsl.registries.DocumentRegistry: the      *)
(* registry of document adapters (register, get_documents, get_models,     *)
(* get_indices) and the update dispatcher (update, delete).                *)
(***************************************************************************)
EXTENDS Integers, Sequences, FiniteSets, TLC

(***************************************************************************)
(* Bounds                                                                  *)
(***************************************************************************)
\* number of distinct (index, adapter) pairs registered in one run
MaxRegs == 3

(***************************************************************************)
(* The universe of inputs: model classes, adapters (DocType subclasses)    *)
(* and Index objects.  They mirror the fixtures of tests/test_registries.  *)
(***************************************************************************)
Models == {"ModelA", "ModelC", "ModelD", "ModelE"}

Docs == {"DocA1", "DocA2", "DocD1", "DocD2"}

Connections == {"conn1", "conn2"}

\* doc_class._doc_type.model
DocModel(doc) ==
    CASE doc = "DocA1" -> "ModelA"
      [] doc = "DocA2" -> "ModelA"
      [] doc = "DocD1" -> "ModelD"
      [] doc = "DocD2" -> "ModelD"

\* doc_class._doc_type.related_models (iterated for its keys)
DocRelatedModels(doc) ==
    CASE doc = "DocA1" -> {}
      [] doc = "DocA2" -> {}
      [] doc = "DocD1" -> {"ModelA", "ModelE"}
      [] doc = "DocD2" -> {"ModelE"}

\* doc._doc_type.ignore_signals
DocIgnoreSignals(doc) == doc \in {"DocA2", "DocD2"}

\* doc_inst.connection
DocConnection(doc) == IF doc = "DocD2" THEN "conn2" ELSE "conn1"

\* Index objects: identity is the object, _name is an attribute.  Idx1 and
\* Idx2 are two separate Index instances with the same name.
IndexObjs == {"Idx1", "Idx2", "Idx3"}

IndexName(index) == IF index = "Idx3" THEN "index_2" ELSE "index_1"

IndexNames == {IndexName(i) : i \in IndexObjs}

(***************************************************************************)
(* State                                                                   *)
(***************************************************************************)
VARIABLES
    models,          \* self._models          : defaultdict(set), Model -> adapters
    indices,         \* self._indices         : defaultdict(set), Index -> adapters
    related_models,  \* self._related_models  : defaultdict(set), Model -> Models
    registered,      \* history: the (index, adapter) pairs register was called with
    first_index,     \* history: name -> the first Index object registered under it
    last,            \* the last call: its arguments, its result, its bulk calls
    signals          \* the receivers connected to post_save and post_delete
                     \* and the last of setup / teardown that was called

vars == <<models, indices, related_models, registered, first_index, last, signals>>

registry == <<models, indices, related_models>>

\* a defaultdict(set) is a function on its present keys
EmptyDict == [k \in {} |-> {}]

\* d[k]: the value read from a defaultdict (the empty set for a missing key)
DDValue(d, k) == IF k \in DOMAIN d THEN d[k] ELSE {}

\* the defaultdict after d[k] has been evaluated for every k of keys:
\* __getitem__ on a missing key inserts the default
DDTouch(d, keys) ==
    [k \in DOMAIN d \cup keys |-> DDValue(d, k)]

\* the defaultdict after d[k].add(v)
DDAdd(d, k, v) ==
    [x \in DOMAIN d \cup {k} |-> IF x = k THEN DDValue(d, k) \cup {v} ELSE d[x]]

\* the defaultdict after d[k].add(v) for every key k of ks
DDAddAllKeys(d, ks, v) ==
    [x \in DOMAIN d \cup ks |-> IF x \in ks THEN DDValue(d, x) \cup {v} ELSE d[x]]

NoCall == [op |-> "none"]

\* Signal.connect(receiver): the receiver is appended unless a receiver with
\* the same lookup key (object, method) is connected already
signal_connect(receivers, r) ==
    IF \E i \in DOMAIN receivers : receivers[i] = r
    THEN receivers
    ELSE Append(receivers, r)

\* Signal.disconnect(receiver): the receiver's entry is removed
signal_disconnect(receivers, r) ==
    SelectSeq(receivers, LAMBDA x : x # r)

\* no receiver connected and neither hook called yet
NoSignals == [post_save |-> <<>>, post_delete |-> <<>>, hook |-> "none"]

\* RealTimeSignalProcessor.setup
setup_signals(sig) ==
    [post_save |-> signal_connect(sig.post_save, "handle_save"),
     post_delete |-> signal_connect(sig.post_delete, "handle_delete"),
     hook |-> "setup"]

\* mutant: teardown disconnects the save handler only
teardown_signals_save_only(sig) ==
    [post_save |-> signal_disconnect(sig.post_save, "handle_save"),
     post_delete |-> sig.post_delete,
     hook |-> "teardown"]

\* RealTimeSignalProcessor.teardown
teardown_signals(sig) ==
    [post_save |-> signal_disconnect(sig.post_save, "handle_save"),
     post_delete |-> signal_disconnect(sig.post_delete, "handle_delete"),
     hook |-> "teardown"]

\* BaseSignalProcessor.__init__ calls self.setup()
ConstructedSignals == setup_signals(NoSignals)

Init ==
    /\ models = EmptyDict
    /\ indices = EmptyDict
    /\ related_models = EmptyDict
    /\ registered = {}
    /\ first_index = [n \in {} |-> "Idx1"]
    /\ last = NoCall
    /\ signals = ConstructedSignals

(***************************************************************************)
(* register(index, doc_class)                                              *)
(***************************************************************************)
\* mutant: the adapter set of the model is assigned, not added to
register_models_assign(m, doc) ==
    [x \in DOMAIN m \cup {DocModel(doc)} |->
        IF x = DocModel(doc) THEN {doc} ELSE m[x]]

\* self._models[doc_class._doc_type.model].add(doc_class)
register_models(m, doc) == DDAdd(m, DocModel(doc), doc)

\* mutant: the edge is stored in the wrong direction, primary -> related
register_related_reversed(r, doc) ==
    [x \in DOMAIN r \cup (IF DocRelatedModels(doc) = {} THEN {} ELSE {DocModel(doc)}) |->
        IF x = DocModel(doc) THEN DDValue(r, x) \cup DocRelatedModels(doc) ELSE r[x]]

\* for related in related_models: self._related_models[related].add(model)
register_related(r, doc) == DDAddAllKeys(r, DocRelatedModels(doc), DocModel(doc))

\* mutant: the entries are looked up by Index object, not by name
register_indices_by_identity(ind, index, doc) == {DDAdd(ind, index, doc)}

\* mutant: the early return is taken before the adapter is added
register_indices_return_early(ind, index, doc) ==
    LET same == {idx \in DOMAIN ind : IndexName(index) = IndexName(idx)}
    IN  IF same # {} THEN {ind} ELSE {DDAdd(ind, index, doc)}

\* the loop over the entries of _indices comparing names, with its early
\* return, then the new entry: the set of maps the call may leave (the
\* iteration order decides which same-named entry is met first)
register_indices(ind, index, doc) ==
    LET same == {idx \in DOMAIN ind : IndexName(index) = IndexName(idx)}
    IN  IF same # {}
        THEN {DDAdd(ind, idx, doc) : idx \in same}
        ELSE {DDAdd(ind, index, doc)}

Register(index, doc) ==
    /\ last = NoCall
    /\ Cardinality(registered \cup {<<index, doc>>}) <= MaxRegs
    /\ models' = register_models(models, doc)
    /\ related_models' = register_related(related_models, doc)
    /\ indices' \in register_indices(indices, index, doc)
    /\ registered' = registered \cup {<<index, doc>>}
    /\ first_index' =
          IF IndexName(index) \in DOMAIN first_index
          THEN first_index
          ELSE [n \in DOMAIN first_index \cup {IndexName(index)} |->
                   IF n = IndexName(index) THEN index ELSE first_index[n]]
    /\ last' = [op |-> "register", index |-> index, doc |-> doc,
                again |-> <<index, doc>> \in registered, raised |-> FALSE]
    /\ UNCHANGED signals

(***************************************************************************)
(* get_documents, get_models, get_indices                                  *)
(***************************************************************************)
\* the models argument: omitted (None) or an iterable of models
NoModels == [given |-> FALSE, models |-> {}]
ModelArgs == {NoModels} \cup {[given |-> TRUE, models |-> ms] : ms \in SUBSET Models}

\* mutant: self._models[model] is read without the membership test
get_documents_reads_unguarded(m, arg) ==
    IF arg.given THEN arg.models ELSE {}

\* the keys of _models that get_documents evaluates self._models[model] for
get_documents_reads(m, arg) ==
    IF arg.given THEN {model \in arg.models : model \in DOMAIN m} ELSE {}

get_documents(m, ind, arg) ==
    IF arg.given
    THEN UNION {DDValue(m, model) : model \in get_documents_reads(m, arg)}
    ELSE UNION {ind[i] : i \in DOMAIN ind}

get_models(m) == DOMAIN m

\* get_related_models(model): the primary models that depend on model
get_related_models(r, model) == IF model \in DOMAIN r THEN r[model] ELSE {}

\* mutant: the filter on the adapters' models is lost
get_indices_unfiltered(ind, arg) == DOMAIN ind

get_indices(ind, arg) ==
    IF arg.given
    THEN {indice \in DOMAIN ind :
             \E doc \in ind[indice] : DocModel(doc) \in arg.models}
    ELSE DOMAIN ind

GetDocuments(arg) ==
    /\ last = NoCall
    /\ models' = DDTouch(models, get_documents_reads(models, arg))
    /\ last' = [op |-> "get_documents", arg |-> arg,
                result |-> get_documents(models, indices, arg), raised |-> FALSE]
    /\ UNCHANGED <<indices, related_models, registered, first_index, signals>>

GetModels ==
    /\ last = NoCall
    /\ last' = [op |-> "get_models", result |-> get_models(models), raised |-> FALSE]
    /\ UNCHANGED <<models, indices, related_models, registered, first_index, signals>>

GetIndices(arg) ==
    /\ last = NoCall
    /\ last' = [op |-> "get_indices", arg |-> arg,
                result |-> get_indices(indices, arg), raised |-> FALSE]
    /\ UNCHANGED <<models, indices, related_models, registered, first_index, signals>>

\* get_documents(model) with one model class instead of an iterable: the
\* generator expression evaluates iter(models) on the class, which is not
\* iterable, and the TypeError leaves the call
get_documents_single(m, model) == [raised |-> TRUE, result |-> {}]

GetDocumentsSingle(model) ==
    /\ last = NoCall
    /\ last' = [op |-> "get_documents_single", model |-> model,
                result |-> get_documents_single(models, model).result,
                raised |-> get_documents_single(models, model).raised]
    /\ UNCHANGED <<models, indices, related_models, registered, first_index, signals>>

\* registry.get_related_models(model) on the DocumentRegistry of
\* registries.py: the class defines no such attribute, the attribute lookup
\* raises AttributeError
get_related_models_call(r, model) == [raised |-> TRUE, result |-> {}]

GetRelatedModels(model) ==
    /\ last = NoCall
    /\ last' = [op |-> "get_related_models", model |-> model,
                result |-> get_related_models_call(related_models, model).result,
                raised |-> get_related_models_call(related_models, model).raised]
    /\ UNCHANGED <<models, indices, related_models, registered, first_index, signals>>

(***************************************************************************)
(* update(instance, action='index', from_signal=False, **kwargs) and       *)
(* delete(instance, **kwargs)                                              *)
(***************************************************************************)
Actions == {"index", "delete"}

\* what get_instances_from_related may return: None, an empty collection,
\* one primary-model instance, a collection of several instances
LookupValues == {"None", "Empty", "One", "Many"}

\* mutant: the test is "is not None", an empty result passes
Truthy_not_none(v) == v # "None"

\* Python truth value of a lookup result
Truthy(v) == v \in {"One", "Many"}

\* the refresh keyword of the caller: not passed, True or False
RefreshArgs == {"absent", "True", "False"}

\* the connection whose bulk call raises, among those that get a bulk call
\* ("none": every bulk call succeeds)
Failures == {"none"} \cup Connections

RECURSIVE Perms(_)
\* the orders in which a set (or the keys of a dict) may be iterated
Perms(S) ==
    IF S = {} THEN {<<>>}
    ELSE UNION {{<<x>> \o p : p \in Perms(S \ {x})} : x \in S}

\* mutant: from_signal is not tested, ignore_signals alone skips an adapter
Processed_ignore_only(doc, from_signal) == ~DocIgnoreSignals(doc)

\* not (from_signal and doc._doc_type.ignore_signals)
Processed(doc, from_signal) == ~(from_signal /\ DocIgnoreSignals(doc))

\* doc_inst._get_actions(object_list, action): one action per element of
\* object_list; an index action carries a source, a delete action none
get_actions(gen) ==
    <<[op_type |-> gen.action, type |-> gen.doc, obj |-> gen.obj,
       source |-> IF gen.action = "delete" THEN "None" ELSE "source",
       via |-> gen.via]>>

RECURSIVE Chain(_)
\* list(chain(*actions)) for the generators taken in the order gens, each
\* generator yielding the actions of _get_actions
Chain(gens) ==
    IF gens = <<>> THEN <<>>
    ELSE get_actions(Head(gens)) \o Chain(Tail(gens))

\* first pass: the generators of the adapters of the instance's own model
own_generators(m, cls, action, from_signal) ==
    IF cls \in DOMAIN m
    THEN {[doc |-> doc, via |-> "own", obj |-> <<"instance", cls>>,
           action |-> action] :
             doc \in {d \in m[cls] : Processed(d, from_signal)}}
    ELSE {}

\* second pass: the primary models whose adapters are read through
\* self._models[model]
related_reads(r, cls) == IF cls \in DOMAIN r THEN r[cls] ELSE {}

\* second pass: the adapters whose get_instances_from_related is called
related_docs(m, r, cls, from_signal) ==
    {doc \in UNION {DDValue(m, model) : model \in related_reads(r, cls)} :
        Processed(doc, from_signal)}

\* mutant: the requested action is passed on to the related adapters
related_generators_same_action(m, r, cls, from_signal, lookup, action) ==
    {[doc |-> doc, via |-> "related", obj |-> <<lookup[doc], DocModel(doc)>>,
      action |-> action] :
        doc \in {d \in related_docs(m, r, cls, from_signal) : Truthy(lookup[d])}}

\* second pass: the generators added for a truthy lookup result, always
\* with action='index' (the requested action is not used)
related_generators(m, r, cls, from_signal, lookup, action) ==
    {[doc |-> doc, via |-> "related", obj |-> <<lookup[doc], DocModel(doc)>>,
      action |-> "index"] :
        doc \in {d \in related_docs(m, r, cls, from_signal) : Truthy(lookup[d])}}

\* mutant: the entry of a connection is overwritten, not added to
connection_actions_overwrite(gens) ==
    [c \in {DocConnection(g.doc) : g \in gens} |->
        {CHOOSE g \in gens : DocConnection(g.doc) = c}]

\* connection_actions: defaultdict(set) from connection to generators
connection_actions(gens) ==
    [c \in {DocConnection(g.doc) : g \in gens} |->
        {g \in gens : DocConnection(g.doc) = c}]

\* mutant: auto-refresh overrides the refresh value of the caller
bulk_kwargs_override(refresh, auto_refresh) ==
    IF auto_refresh THEN "True" ELSE refresh

\* if 'refresh' not in kwargs and auto_refresh_enabled(): kwargs['refresh'] = True
bulk_kwargs(refresh, auto_refresh) ==
    IF refresh = "absent" /\ auto_refresh THEN "True" ELSE refresh

\* mutant: a failing bulk call is swallowed and the loop goes on
dispatch_best_effort(conn_order, chains, kwargs, fail) ==
    [calls |-> [i \in 1..Len(conn_order) |->
                   [client |-> conn_order[i],
                    actions |-> Chain(chains[conn_order[i]]),
                    refresh |-> kwargs]],
     raised |-> FALSE]

\* the loop over connection_actions: one bulk call per key, in the order
\* conn_order, each with its generators chained in the order chains[c];
\* a bulk call that raises ends the loop
dispatch(conn_order, chains, kwargs, fail) ==
    LET n == Len(conn_order)
        bad == {i \in 1..n : conn_order[i] = fail}
        stop == IF bad = {} THEN n ELSE CHOOSE i \in bad : TRUE
    IN  [calls |-> [i \in 1..stop |->
                       [client |-> conn_order[i],
                        actions |-> Chain(chains[conn_order[i]]),
                        refresh |-> kwargs]],
         raised |-> bad # {}]

\* mutant: self._models[instance.__class__] is read without the membership
\* test of the first pass
update_models_reads_unguarded(m, r, cls) == {cls} \cup related_reads(r, cls)

\* the keys of _models that update evaluates self._models[...] for: the
\* instance's class when it is a key, and the related primary models
update_models_reads(m, r, cls) ==
    (IF cls \in DOMAIN m THEN {cls} ELSE {}) \cup related_reads(r, cls)

\* mutant: self._related_models[instance.__class__] is read without the
\* membership test of the second pass
update_related_reads_unguarded(r, cls) == {cls}

\* the keys of _related_models that update evaluates
\* self._related_models[...] for: the instance's class when it is a key
update_related_reads(r, cls) == IF cls \in DOMAIN r THEN {cls} ELSE {}

\* the runs of one update call: the lookup results, the iteration orders of
\* connection_actions and of its sets, and the bulk calls they lead to
UpdateRecords(op, cls, action, from_signal, refresh, auto_refresh, fail) ==
    UNION {
        LET gens == own_generators(models, cls, action, from_signal)
                      \cup related_generators(models, related_models, cls,
                                              from_signal, lookup, action)
            ca == connection_actions(gens)
            orders == {o \in Perms(DOMAIN ca)
                               \X [DOMAIN ca -> UNION {Perms(ca[c]) : c \in DOMAIN ca}] :
                          \A c \in DOMAIN ca : o[2][c] \in Perms(ca[c])}
        IN  IF fail \notin {"none"} \cup DOMAIN ca
            THEN {}
            ELSE {LET out == dispatch(o[1], o[2],
                                      bulk_kwargs(refresh, auto_refresh), fail)
                  IN  [op |-> op, cls |-> cls, action |-> action,
                       from_signal |-> from_signal, refresh |-> refresh,
                       auto_refresh |-> auto_refresh, fail |-> fail,
                       lookup |-> lookup, gens |-> gens,
                       bulk_calls |-> out.calls, raised |-> out.raised] :
                     o \in orders}
        : lookup \in [related_docs(models, related_models, cls, from_signal)
                         -> LookupValues]}

UpdateCall(op, cls, action, from_signal, refresh, auto_refresh, fail) ==
    /\ last = NoCall
    /\ last' \in UpdateRecords(op, cls, action, from_signal, refresh,
                               auto_refresh, fail)
    /\ models' = DDTouch(models, update_models_reads(models, related_models, cls))
    /\ related_models' =
          DDTouch(related_models, update_related_reads(related_models, cls))
    /\ UNCHANGED <<indices, registered, first_index, signals>>

Update(cls, action, from_signal, refresh, auto_refresh, fail) ==
    UpdateCall("update", cls, action, from_signal, refresh, auto_refresh, fail)

\* mutant: the action is not passed on, update runs with its default
DeleteRecords_default_action(cls, from_signal, refresh, auto_refresh, fail) ==
    UpdateRecords("delete", cls, "index", from_signal, refresh, auto_refresh, fail)

\* self.update(instance, action="delete", **kwargs): the runs of a delete call
DeleteRecords(cls, from_signal, refresh, auto_refresh, fail) ==
    UpdateRecords("delete", cls, "delete", from_signal, refresh, auto_refresh, fail)

Delete(cls, from_signal, refresh, auto_refresh, fail) ==
    /\ last = NoCall
    /\ last' \in DeleteRecords(cls, from_signal, refresh, auto_refresh, fail)
    /\ models' = DDTouch(models, update_models_reads(models, related_models, cls))
    /\ related_models' =
          DDTouch(related_models, update_related_reads(related_models, cls))
    /\ UNCHANGED <<indices, registered, first_index, signals>>

\* the call returns (or its exception reaches the caller): execution is
\* synchronous call-and-return, one call at a time
Return ==
    /\ last # NoCall
    /\ last' = NoCall
    /\ UNCHANGED <<models, indices, related_models, registered, first_index, signals>>

(***************************************************************************)
(* signals.py: BaseSignalProcessor and RealTimeSignalProcessor             *)
(***************************************************************************)
\* a run of _handle_internal in which nothing was done
QuietRun ==
    [autosync_reads |-> 1, registry_calls |-> <<>>, update_calls |-> <<>>,
     buffered |-> {}, lookups |-> {}, executed |-> FALSE, raised |-> FALSE]

\* mutant: the autosync flag is not tested
handle_internal_no_gate(cls, action, autosync) ==
    [QuietRun EXCEPT !.autosync_reads = 0,
                     !.registry_calls = <<"get_documents">>,
                     !.raised = get_documents_single(models, cls).raised]

\* _handle_internal(instance, action): the autosync test, then the action
\* buffer filled from registry.get_documents(instance.__class__) and from
\* registry.get_related_models(instance.__class__), then actions.execute();
\* an exception of a registry call leaves the handler.  registry.update is
\* not called on any path.
handle_internal(cls, action, autosync) ==
    LET docs == get_documents_single(models, cls)
        own == {[doc |-> d, action |-> action] :
                   d \in {x \in docs.result : ~DocIgnoreSignals(x)}}
        rel == get_related_models_call(related_models, cls)
        looked == {d \in UNION {get_documents_single(models, r).result :
                                    r \in rel.result} : ~DocIgnoreSignals(d)}
    IN  IF ~autosync THEN QuietRun
        ELSE IF docs.raised
        THEN [QuietRun EXCEPT !.registry_calls = <<"get_documents">>,
                              !.raised = TRUE]
        ELSE IF rel.raised
        THEN [QuietRun EXCEPT !.registry_calls =
                                  <<"get_documents", "get_related_models">>,
                              !.buffered = own, !.raised = TRUE]
        ELSE [QuietRun EXCEPT !.registry_calls =
                                  <<"get_documents", "get_related_models">>,
                              !.buffered = own, !.lookups = looked,
                              !.executed = TRUE]

\* handle_save(sender, instance=...): _handle_internal(instance, 'index')
HandleSave(cls, autosync) ==
    /\ last = NoCall
    /\ last' = [op |-> "handle_save", cls |-> cls, action |-> "index",
                autosync |-> autosync,
                run |-> handle_internal(cls, "index", autosync)]
    /\ UNCHANGED <<models, indices, related_models, registered, first_index, signals>>

\* handle_delete(sender, instance=...): _handle_internal(instance, 'delete')
HandleDelete(cls, autosync) ==
    /\ last = NoCall
    /\ last' = [op |-> "handle_delete", cls |-> cls, action |-> "delete",
                autosync |-> autosync,
                run |-> handle_internal(cls, "delete", autosync)]
    /\ UNCHANGED <<models, indices, related_models, registered, first_index, signals>>

\* RealTimeSignalProcessor.setup()
Setup ==
    /\ last = NoCall
    /\ signals' = setup_signals(signals)
    /\ last' = [op |-> "setup", raised |-> FALSE]
    /\ UNCHANGED <<models, indices, related_models, registered, first_index>>

\* RealTimeSignalProcessor.teardown()
Teardown ==
    /\ last = NoCall
    /\ signals' = teardown_signals(signals)
    /\ last' = [op |-> "teardown", raised |-> FALSE]
    /\ UNCHANGED <<models, indices, related_models, registered, first_index>>

\* the handler a connected receiver names, run for an instance of cls
receiver_run(r, cls, autosync) ==
    IF r = "handle_save"
    THEN handle_internal(cls, "index", autosync)
    ELSE handle_internal(cls, "delete", autosync)

\* Signal.send: the receivers are called in order; an exception of a
\* receiver leaves send, the receivers after it are not called
signal_send(receivers, cls, autosync) ==
    LET bad == {i \in DOMAIN receivers :
                   receiver_run(receivers[i], cls, autosync).raised}
        stop == IF bad = {} THEN Len(receivers)
                ELSE CHOOSE i \in bad : \A j \in bad : i <= j
    IN  [i \in 1..stop |->
            [receiver |-> receivers[i],
             run |-> receiver_run(receivers[i], cls, autosync)]]

\* a model instance was saved: post_save is sent
PostSave(cls, autosync) ==
    /\ last = NoCall
    /\ last' = [op |-> "post_save", cls |-> cls, autosync |-> autosync,
                handled |-> signal_send(signals.post_save, cls, autosync)]
    /\ UNCHANGED <<models, indices, related_models, registered, first_index, signals>>

\* a model instance was deleted: post_delete is sent
PostDelete(cls, autosync) ==
    /\ last = NoCall
    /\ last' = [op |-> "post_delete", cls |-> cls, autosync |-> autosync,
                handled |-> signal_send(signals.post_delete, cls, autosync)]
    /\ UNCHANGED <<models, indices, related_models, registered, first_index, signals>>

\* the Index objects the registrations of Spec go through; update and delete
\* never read _indices
DispatchIndexObjs == {"Idx1", "Idx3"}

\* every operation of the registry
Next ==
    \/ \E index \in DispatchIndexObjs, doc \in Docs : Register(index, doc)
    \/ \E arg \in ModelArgs : GetDocuments(arg)
    \/ GetModels
    \/ \E arg \in ModelArgs : GetIndices(arg)
    \/ \E model \in Models : GetDocumentsSingle(model)
    \/ \E model \in Models : GetRelatedModels(model)
    \/ \E cls \in Models, action \in Actions, from_signal \in BOOLEAN,
          refresh \in RefreshArgs, auto_refresh \in BOOLEAN, fail \in Failures :
          Update(cls, action, from_signal, refresh, auto_refresh, fail)
    \/ \E cls \in Models, from_signal \in BOOLEAN,
          refresh \in RefreshArgs, auto_refresh \in BOOLEAN, fail \in Failures :
          Delete(cls, from_signal, refresh, auto_refresh, fail)
    \/ Return

Spec == Init /\ [][Next]_vars

\* the bookkeeping operations alone, with registrations through every Index
\* object, same-named ones included
NextRegistry ==
    \/ \E index \in IndexObjs, doc \in Docs : Register(index, doc)
    \/ \E arg \in ModelArgs : GetDocuments(arg)
    \/ GetModels
    \/ \E arg \in ModelArgs : GetIndices(arg)
    \/ \E model \in Models : GetDocumentsSingle(model)
    \/ \E model \in Models : GetRelatedModels(model)
    \/ Return

SpecRegistry == Init /\ [][NextRegistry]_vars

\* the signal bridge: registrations, the handlers called directly and
\* through the signals, setup and teardown
NextBridge ==
    \/ \E index \in DispatchIndexObjs, doc \in Docs : Register(index, doc)
    \/ \E cls \in Models, autosync \in BOOLEAN : HandleSave(cls, autosync)
    \/ \E cls \in Models, autosync \in BOOLEAN : HandleDelete(cls, autosync)
    \/ Setup
    \/ Teardown
    \/ \E cls \in Models, autosync \in BOOLEAN : PostSave(cls, autosync)
    \/ \E cls \in Models, autosync \in BOOLEAN : PostDelete(cls, autosync)
    \/ Return

SpecBridge == Init /\ [][NextBridge]_vars

(***************************************************************************)
(* Properties                                                              *)
(***************************************************************************)
UpdateOps == {"update", "delete"}

IsUpdate == last.op \in UpdateOps

Range(seq) == {seq[i] : i \in DOMAIN seq}

\* the adapters register was called with
RegisteredDocs == {p[2] : p \in registered}

\* the adapters of the instance's own model that update has to process
ExpectedOwn ==
    {d \in RegisteredDocs :
        DocModel(d) = last.cls /\ ~(last.from_signal /\ DocIgnoreSignals(d))}

\* the adapters of the primary models that declare the instance's model as
\* related: their lookup is called
ExpectedLookups ==
    {d \in RegisteredDocs :
        /\ \E d2 \in RegisteredDocs :
              DocModel(d2) = DocModel(d) /\ last.cls \in DocRelatedModels(d2)
        /\ ~(last.from_signal /\ DocIgnoreSignals(d))}

\* the (adapter, pass) pairs that contribute actions to the update
ExpectedSources ==
    {<<d, "own">> : d \in ExpectedOwn}
      \cup {<<d, "related">> :
              d \in {x \in ExpectedLookups :
                        x \in DOMAIN last.lookup /\ last.lookup[x] \in {"One", "Many"}}}

ExpectedConnections == {DocConnection(src[1]) : src \in ExpectedSources}

\* C1: an update calls bulk at most once per connection and only for
\* connections that received an action; the call carries the actions of
\* every adapter of that connection, own and related-derived together; when
\* no bulk call raises, every connection that received an action is called.
C1_OneBulkPerConnection ==
    IsUpdate =>
        LET calls == last.bulk_calls
            served == {calls[i].client : i \in DOMAIN calls}
        IN  /\ \A i, j \in DOMAIN calls :
                  i # j => calls[i].client # calls[j].client
            /\ served \subseteq ExpectedConnections
            /\ ~last.raised => served = ExpectedConnections
            /\ \A i \in DOMAIN calls :
                  LET mine == {src \in ExpectedSources :
                                  DocConnection(src[1]) = calls[i].client}
                  IN  /\ Len(calls[i].actions) = Cardinality(mine)
                      /\ {<<a.type, a.via>> : a \in Range(calls[i].actions)} = mine

\* C1 witness: one bulk call that merges the actions of an adapter of the
\* instance's model and of a related-derived adapter on the same connection
C1_Witness ==
    /\ IsUpdate
    /\ ~last.raised
    /\ Len(last.bulk_calls) = 1
    /\ \E a, b \in Range(last.bulk_calls[1].actions) :
          a.via = "own" /\ b.via = "related"

\* C2: the actions derived through the related-instance lookup are index
\* actions with a source whatever the requested action; the actions of the
\* adapters of the instance's own model carry the requested action.
C2_RelatedAlwaysIndex ==
    IsUpdate =>
        \A i \in DOMAIN last.bulk_calls :
            \A a \in Range(last.bulk_calls[i].actions) :
                /\ a.via = "related" <=> DocModel(a.type) # last.cls
                /\ a.via = "related" =>
                      a.op_type = "index" /\ a.source = "source"
                /\ a.via = "own" =>
                      /\ a.op_type = last.action
                      /\ DocModel(a.type) = last.cls
                      /\ (last.action = "delete" => a.source = "None")

\* C2 witness: a delete of an instance that has its own adapter and a
\* dependent adapter, both in the bulk call
C2_Witness ==
    /\ last.op = "delete"
    /\ \E i \in DOMAIN last.bulk_calls :
          \E a, b \in Range(last.bulk_calls[i].actions) :
              /\ a.via = "related" /\ a.op_type = "index"
              /\ b.via = "own" /\ b.op_type = "delete"

\* C3 (as claimed): in the actions of one bulk call every action of an
\* adapter of the instance's own model precedes every related-derived action.
C3_OwnBeforeRelated ==
    IsUpdate =>
        \A i \in DOMAIN last.bulk_calls :
            LET acts == last.bulk_calls[i].actions
            IN  \A j, k \in DOMAIN acts :
                    (acts[j].via = "own" /\ acts[k].via = "related") => j < k

\* C4: registering an (index, adapter) pair that was registered before
\* raises nothing and leaves models, indices and related_models, and so the
\* results of get_documents, get_models and get_indices, as they were.
C4_RegisterTwiceUnchanged ==
    [][(last'.op = "register" /\ last'.again) =>
          /\ ~last'.raised
          /\ models' = models
          /\ indices' = indices
          /\ related_models' = related_models
          /\ get_documents(models', indices', NoModels)
                = get_documents(models, indices, NoModels)
          /\ get_models(models') = get_models(models)
          /\ get_indices(indices', NoModels) = get_indices(indices, NoModels)]_vars

\* C4 witness: a pair is registered again after other registrations
C4_Witness ==
    /\ last.op = "register"
    /\ last.again
    /\ Cardinality(registered) >= 2

\* C5: no two entries of indices have the same name, and an adapter
\* registered through any Index object is in the entry of the first Index
\* object registered under that name.
C5_IndicesUniqueByName ==
    /\ \A i, j \in DOMAIN indices : IndexName(i) = IndexName(j) => i = j
    /\ \A i, j \in get_indices(indices, NoModels) :
          IndexName(i) = IndexName(j) => i = j
    /\ \A p \in registered :
          /\ IndexName(p[1]) \in DOMAIN first_index
          /\ first_index[IndexName(p[1])] \in DOMAIN indices
          /\ p[2] \in indices[first_index[IndexName(p[1])]]

\* C5 witness: an adapter was registered through a second Index object of
\* an already registered name
C5_Witness ==
    \E p \in registered :
        /\ IndexName(p[1]) \in DOMAIN first_index
        /\ first_index[IndexName(p[1])] # p[1]

\* C6: get_documents(ms) returns exactly the registered adapters whose
\* model is in ms, raises nothing, and leaves no entry in models for a model
\* without adapter; every registered adapter is found under its model.
C6_GetDocumentsByModels ==
    /\ \A d \in RegisteredDocs :
          d \in get_documents(models, indices,
                              [given |-> TRUE, models |-> {DocModel(d)}])
    /\ (last.op = "get_documents" /\ last.arg.given) =>
          /\ last.result = {d \in RegisteredDocs : DocModel(d) \in last.arg.models}
          /\ ~last.raised
          /\ DOMAIN models = {DocModel(d) : d \in RegisteredDocs}

\* C6 witness: a query that names a registered and an unregistered model
C6_Witness ==
    /\ last.op = "get_documents"
    /\ last.arg.given
    /\ last.result # {}
    /\ \E m \in last.arg.models : m \notin {DocModel(d) : d \in RegisteredDocs}

\* C7: get_documents() returns every registered adapter: the union over the
\* index entries equals the union over the model entries.
C7_GetDocumentsAll ==
    /\ get_documents(models, indices, NoModels) = RegisteredDocs
    /\ UNION {indices[i] : i \in DOMAIN indices}
          = UNION {models[m] : m \in DOMAIN models}
    /\ (last.op = "get_documents" /\ ~last.arg.given) =>
          last.result = RegisteredDocs /\ ~last.raised

\* C7 witness: get_documents() when one adapter is under two indices and an
\* index holds two adapters
C7_Witness ==
    /\ last.op = "get_documents"
    /\ ~last.arg.given
    /\ \E i, j \in DOMAIN indices : i # j /\ indices[i] \cap indices[j] # {}
    /\ \E i \in DOMAIN indices : Cardinality(indices[i]) >= 2

C9_GetIndices ==
    last.op = "get_indices" =>
        /\ ~last.raised
        /\ last.arg.given =>
              last.result = {first_index[IndexName(p[1])] :
                                p \in {q \in registered :
                                          DocModel(q[2]) \in last.arg.models}}
        /\ ~last.arg.given =>
              last.result = {first_index[n] : n \in DOMAIN first_index}

\* C9 witness: a query by models that selects some of the indices, not all
C9_Witness ==
    /\ last.op = "get_indices"
    /\ last.arg.given
    /\ last.result # {}
    /\ last.result # DOMAIN indices

\* C10: an adapter whose related-instance lookup returns a falsy value
\* contributes no action and no error; when no adapter contributes an
\* action the update makes no bulk call.
C10_FalsyLookupSkipped ==
    IsUpdate =>
        /\ DOMAIN last.lookup = ExpectedLookups
        /\ \A d \in DOMAIN last.lookup :
              last.lookup[d] \in {"None", "Empty"} =>
                  \A i \in DOMAIN last.bulk_calls :
                      \A a \in Range(last.bulk_calls[i].actions) :
                          ~(a.type = d /\ a.via = "related")
        /\ ExpectedSources = {} => last.bulk_calls = <<>>
        /\ last.raised => last.fail # "none"

\* C10 witness: every lookup of the update returned None or an empty
\* collection, and no bulk call was made
C10_Witness ==
    /\ IsUpdate
    /\ \E d, e \in DOMAIN last.lookup :
          last.lookup[d] = "None" /\ last.lookup[e] = "Empty"
    /\ last.bulk_calls = <<>>
    /\ ~last.raised

\* the adapters update comes across: those of the instance's own model and
\* those of the primary models that depend on the instance's model
OwnCandidates == {d \in RegisteredDocs : DocModel(d) = last.cls}

RelatedCandidates ==
    {d \in RegisteredDocs :
        \E d2 \in RegisteredDocs :
            DocModel(d2) = DocModel(d) /\ last.cls \in DocRelatedModels(d2)}

\* C11: update skips an adapter (computes no action for it, does not call
\* its lookup) exactly when from_signal and the adapter's ignore_signals are
\* both true, in the own-model pass and in the related-model pass alike.
C11_SkippedIffSignalIgnored ==
    IsUpdate =>
        /\ \A d \in OwnCandidates :
              (~\E g \in last.gens : g.doc = d /\ g.via = "own")
                  <=> (last.from_signal /\ DocIgnoreSignals(d))
        /\ \A d \in RelatedCandidates :
              (d \notin DOMAIN last.lookup)
                  <=> (last.from_signal /\ DocIgnoreSignals(d))
        /\ \A g \in last.gens :
              /\ g.via = "own" => g.doc \in OwnCandidates
              /\ g.via = "related" =>
                    g.doc \in RelatedCandidates /\ g.doc \in DOMAIN last.lookup
        /\ DOMAIN last.lookup \subseteq RelatedCandidates

\* C11 witness: an update from a signal that skips an adapter with
\* ignore_signals and processes another adapter
C11_Witness ==
    /\ IsUpdate
    /\ last.from_signal
    /\ \E d \in OwnCandidates \cup RelatedCandidates : DocIgnoreSignals(d)
    /\ last.gens # {}

\* C11 second case: without from_signal an adapter with ignore_signals is
\* processed in both passes
C11_WitnessNoSignal ==
    /\ IsUpdate
    /\ ~last.from_signal
    /\ \E g \in last.gens : g.via = "own" /\ DocIgnoreSignals(g.doc)
    /\ \E d \in DOMAIN last.lookup : DocIgnoreSignals(d)

\* the refresh option the bulk calls of the update have to carry
ExpectedRefresh ==
    CASE last.refresh # "absent" -> last.refresh
      [] last.refresh = "absent" /\ last.auto_refresh -> "True"
      [] OTHER -> "absent"

\* C12: every bulk call of an update carries refresh=True when the caller
\* passed none and auto-refresh is on, no refresh when the caller passed none
\* and auto-refresh is off, and the caller's value otherwise.
C12_RefreshOption ==
    IsUpdate =>
        \A i \in DOMAIN last.bulk_calls :
            last.bulk_calls[i].refresh = ExpectedRefresh

\* C12 witness: the caller passed refresh=False while auto-refresh is on
C12_Witness ==
    /\ IsUpdate
    /\ last.refresh = "False"
    /\ last.auto_refresh
    /\ last.bulk_calls # <<>>

\* C13: a bulk call that raises is the last one of the update: it is made
\* once (no retry), the update raises, the connections after it get no call
\* and the calls made before it stay made.
C13_BulkFailureAborts ==
    IsUpdate =>
        LET calls == last.bulk_calls
            n == Len(calls)
        IN  /\ last.raised <=> last.fail # "none"
            /\ last.fail # "none" =>
                  /\ n >= 1
                  /\ calls[n].client = last.fail
                  /\ \A i \in 1..(n - 1) :
                        /\ calls[i].client # last.fail
                        /\ calls[i].client \in ExpectedConnections
                        /\ calls[i].actions # <<>>
                  /\ last.fail \in ExpectedConnections

\* C13 witness: the first of two connections fails and the second one gets
\* no bulk call
C13_Witness ==
    /\ IsUpdate
    /\ last.raised
    /\ Len(last.bulk_calls) = 1
    /\ Cardinality(ExpectedConnections) = 2

\* C13 second case: the second of two connections fails after the call to
\* the first one was made
C13_WitnessSecondFails ==
    /\ IsUpdate
    /\ last.raised
    /\ Len(last.bulk_calls) = 2

\* C14: a delete call is an update call with action 'delete' and the same
\* options: its run (lookups, bulk calls, actions, exception) is a run of
\* update(instance, action='delete', **options) on the same registry and
\* conversely, and the actions of the instance's own adapters are delete
\* actions without source.
C14_DeleteIsUpdateDelete ==
    /\ last.op = "delete" =>
          /\ last.action = "delete"
          /\ [last EXCEPT !.op = "update"]
                \in UpdateRecords("update", last.cls, "delete", last.from_signal,
                                  last.refresh, last.auto_refresh, last.fail)
          /\ \A i \in DOMAIN last.bulk_calls :
                \A a \in Range(last.bulk_calls[i].actions) :
                    DocModel(a.type) = last.cls =>
                        a.op_type = "delete" /\ a.source = "None"
    /\ (last.op = "update" /\ last.action = "delete") =>
          [last EXCEPT !.op = "delete"]
              \in DeleteRecords(last.cls, last.from_signal, last.refresh,
                                last.auto_refresh, last.fail)

\* C14 witness: a delete from a signal with refresh=False that deletes the
\* own documents and re-indexes a dependent one
C14_Witness ==
    /\ last.op = "delete"
    /\ last.from_signal
    /\ last.refresh = "False"
    /\ \E i \in DOMAIN last.bulk_calls :
          \E a, b \in Range(last.bulk_calls[i].actions) :
              a.op_type = "delete" /\ b.op_type = "index"

\* C19: get_models() is exactly the set of models that have a registered
\* adapter, whatever calls were made: no entry of models is empty.
C19_GetModelsExact ==
    /\ get_models(models) = {DocModel(d) : d \in RegisteredDocs}
    /\ \A m \in DOMAIN models : models[m] # {}
    /\ last.op = "get_models" =>
          last.result = {DocModel(d) : d \in RegisteredDocs} /\ ~last.raised

\* C19 witness: an update for an instance of a model without adapter, on a
\* registry that holds adapters
C19_Witness ==
    /\ IsUpdate
    /\ last.cls \notin {DocModel(d) : d \in RegisteredDocs}
    /\ get_models(models) # {}

HandlerOps == {"handle_save", "handle_delete"}

\* C15 (as claimed): with autosync enabled a handled 'saved' event makes one
\* call registry.update(instance, action='index', from_signal=True) and a
\* handled 'deleted' event one call with action='delete'.
C15_HandlerCallsUpdate ==
    (last.op \in HandlerOps /\ last.autosync) =>
        last.run.update_calls
            = <<[cls |-> last.cls, action |-> last.action, from_signal |-> TRUE]>>

\* C16: with autosync disabled a handled event calls no registry method, no
\* adapter lookup and executes no write, and raises nothing; the autosync
\* flag is read once per event.
C16_NoAutosyncNoWork ==
    last.op \in HandlerOps =>
        /\ last.run.autosync_reads = 1
        /\ ~last.autosync =>
              /\ last.run.registry_calls = <<>>
              /\ last.run.update_calls = <<>>
              /\ last.run.lookups = {}
              /\ last.run.buffered = {}
              /\ ~last.run.executed
              /\ ~last.run.raised

\* C16 witness: a 'deleted' event for a model with a registered adapter,
\* autosync disabled
C16_Witness ==
    /\ last.op = "handle_delete"
    /\ ~last.autosync
    /\ last.cls \in {DocModel(d) : d \in RegisteredDocs}

\* C17 (as claimed): get_documents(m) with one model returns the adapters
\* registered for m, the empty set when there is none, and does not raise.
C17_GetDocumentsSingleModel ==
    last.op = "get_documents_single" =>
        /\ ~last.raised
        /\ last.result = {d \in RegisteredDocs : DocModel(d) = last.model}

\* C18 (as claimed): get_related_models(model) is an operation of the
\* registry: it returns the primary models that depend on model, the empty
\* set when there is none, raises nothing and adds no entry.
C18_GetRelatedModelsOperation ==
    /\ last.op = "get_related_models" =>
          /\ ~last.raised
          /\ last.result = get_related_models(related_models, last.model)
    /\ \A k \in DOMAIN related_models : related_models[k] # {}

\* C20: after any sequence of setup and teardown a change event runs the
\* handler once when the last call was setup (construction included) and
\* not at all when it was teardown; no receiver is connected twice or left
\* behind.
C20_SetupTeardownSubscriptions ==
    /\ signals.hook = "setup" =>
          /\ signals.post_save = <<"handle_save">>
          /\ signals.post_delete = <<"handle_delete">>
    /\ signals.hook = "teardown" =>
          /\ signals.post_save = <<>>
          /\ signals.post_delete = <<>>
    /\ last.op \in {"post_save", "post_delete"} =>
          /\ Len(last.handled) = IF signals.hook = "setup" THEN 1 ELSE 0
          /\ \A i \in DOMAIN last.handled :
                last.handled[i].receiver =
                    IF last.op = "post_save" THEN "handle_save" ELSE "handle_delete"

\* C20 witness: a 'deleted' event after teardown
C20_Witness ==
    /\ last.op = "post_delete"
    /\ signals.hook = "teardown"
    /\ last.handled = <<>>

\* C20 second case: a 'saved' event after setup was called again
C20_WitnessSetup ==
    /\ last.op = "post_save"
    /\ signals.hook = "setup"
    /\ Len(last.handled) = 1

\* the number of primary-model instances a lookup result stands for: none,
\* one instance, or a collection of several (two) instances
InstanceCount(v) ==
    CASE v = "One" -> 1
      [] v = "Many" -> 2
      [] OTHER -> 0

\* the related-derived actions of adapter d in the bulk calls of the update
RelatedActionsOf(d) ==
    {<<i, j>> \in (DOMAIN last.bulk_calls) \X (1..Cardinality(Docs)) :
        /\ j \in DOMAIN last.bulk_calls[i].actions
        /\ last.bulk_calls[i].actions[j].type = d
        /\ last.bulk_calls[i].actions[j].via = "related"}

\* C21 (as claimed): when the related-instance lookup of an adapter returns
\* n >= 1 primary-model instances, the update carries exactly n index
\* actions for that adapter, one per returned instance; with one returned
\* instance it is exactly one index action for that instance.
C21_OneActionPerRelatedInstance ==
    (IsUpdate /\ ~last.raised) =>
        \A d \in DOMAIN last.lookup :
            InstanceCount(last.lookup[d]) >= 1 =>
                /\ Cardinality(RelatedActionsOf(d)) = InstanceCount(last.lookup[d])
                /\ \A p \in RelatedActionsOf(d) :
                      LET a == last.bulk_calls[p[1]].actions[p[2]]
                      IN  /\ a.op_type = "index"
                          /\ a.obj = <<"One", DocModel(d)>>

\* C22: update, delete, get_documents, get_models and get_indices leave
\* models, indices and related_models as they were, for every argument
\* (unregistered models and instances, failing bulk calls included): a step
\* that changes one of the three maps is a register call.
C22_OnlyRegisterChangesRegistry ==
    [][last'.op # "register" => UNCHANGED registry]_vars

\* C22 witness: a delete whose bulk call raised, on a registry that holds
\* adapters
C22_Witness ==
    /\ last.op = "delete"
    /\ last.raised
    /\ models # EmptyDict
    /\ related_models # EmptyDict

\* C22 second case: an update for an instance of a model that is neither
\* registered nor related to a registered model
C22_WitnessUnregistered ==
    /\ last.op = "update"
    /\ last.cls \notin DOMAIN models \cup DOMAIN related_models
    /\ models # EmptyDict
    /\ related_models # EmptyDict

\* C22 third case: get_documents for models without adapter
C22_WitnessQuery ==
    /\ last.op = "get_documents"
    /\ last.arg.given
    /\ \E m \in last.arg.models : m \notin DOMAIN models
    /\ models # EmptyDict
====
